---- MODULE Spec2Model ----
(***************************************************************************)
(* A model of src/ConversationM.py: the ChatHistoryHandler (message log,   *)
(* window selection, summary-based compression) and the DataMiner          *)
(* (structured extraction and its quality report).                         *)
(*                                                                         *)
(* Text is modelled as a sequence of one-character strings, so that        *)
(* len(), concatenation and the digit/character tests of the code are      *)
(* computed on the text itself.  The "timestamp" entry of a message is     *)
(* written by record_message and check_and_compress and read by no         *)
(* operation of the file; it is left out of the message records.           *)
(*                                                                         *)
(* The completion service is outside the file.  A call of it is a choice   *)
(* among its outcomes: for a summary, a returned text or a raised          *)
(* exception; for an extraction, a raised exception, a response without    *)
(* usable content, a content json.loads rejects, or a content json.loads   *)
(* turns into a dictionary (response_format asks for a JSON object).  The  *)
(* dictionary is given as parsed; the order of its keys is not kept, so    *)
(* extracted_fields is the set of the keys the code lists.                 *)
(***************************************************************************)
EXTENDS Integers, Sequences, FiniteSets, TLC

\* ------------------------------------------------------------------ bounds
MaxLog == 3         \* record_message is enabled while the log is shorter
MaxTurns == 2       \* keep_recent_turns is called with 0..MaxTurns
MaxBudget == 4      \* fit_to_size is called with 0..MaxBudget
MaxThreshold == 3   \* check_and_compress is called with -1..MaxThreshold

\* ------------------------------------------------------------ text values
ContextPrefix ==
    << "C","o","n","t","e","x","t"," ","f","r","o","m"," ",
       "e","a","r","l","i","e","r",":"," " >>

FailurePrefix ==
    << "C","o","u","l","d","n","'","t"," ","c","r","e","a","t","e"," ",
       "s","u","m","m","a","r","y",":"," " >>

NothingToSummarize ==
    << "N","o","t","h","i","n","g"," ","t","o"," ",
       "s","u","m","m","a","r","i","z","e"," ","y","e","t","." >>

\* what callers pass to record_message: speakers and texts (empty allowed)
Speakers == {"user", "assistant"}
Texts == { <<>>, <<"a">>, <<"a"," ","b">> }

\* what the completion service does with a summarization request: it
\* returns a text, or the call raises an exception whose str() is a text
SummaryTexts == { <<"S">>, <<"T"," ","U">> }
ErrorTexts == { <<"t","i","m","e","o","u","t">> }
SummaryOutcomes ==
    [kind : {"ok"}, text : SummaryTexts] \cup [kind : {"error"}, text : ErrorTexts]
NoOutcome == [kind |-> "none", text |-> <<>>]

Thresholds == (0 - 1)..MaxThreshold

VARIABLES
    chat_log,        \* self.chat_log: sequence of [role, content]
    message_count,   \* self.message_count
    last_summary,    \* self.last_summary
    call,            \* the last completed call of the handler and what it returned
    profile,         \* the dictionary the DataMiner last produced or was given
    report,          \* the last check_quality report
    mcall,           \* the last completed call of the DataMiner
    history,         \* what has happened to the log so far (read by no operation)
    caller           \* the calling discipline: its threshold, and whether a
                     \* message was recorded and not yet followed by a check

vars == << chat_log, message_count, last_summary, call, profile, report, mcall,
           history, caller >>
handlerVars == << chat_log, message_count, last_summary, call, history >>
minerVars == << profile, report, mcall >>

\* -------------------------------------------------------- pure operations
\* Python's s[start:] for any integer start
PySliceFrom(s, start) ==
    LET from == IF start < 0
                THEN (IF Len(s) + start < 0 THEN 0 ELSE Len(s) + start)
                ELSE (IF start > Len(s) THEN Len(s) ELSE start)
    IN  SubSeq(s, from + 1, Len(s))

\* a window cut from the front of the log: chat_log[:messages_to_keep]
keep_recent_turns_FromFront(log, how_many_turns) ==
    LET messages_to_keep == how_many_turns * 2
    IN  IF Len(log) <= messages_to_keep
        THEN log
        ELSE SubSeq(log, 1, messages_to_keep)

keep_recent_turns(log, how_many_turns) ==
    LET messages_to_keep == how_many_turns * 2
    IN  IF Len(log) <= messages_to_keep
        THEN log
        ELSE PySliceFrom(log, 0 - messages_to_keep)

\* a fit_to_size that compares with >= : a message that fills the budget
\* exactly is left out
ExceedsLimit_AtLimit(chars_used, msg_size, character_limit) ==
    chars_used + msg_size >= character_limit

\* the test that ends the loop of fit_to_size
ExceedsLimit(chars_used, msg_size, character_limit) ==
    chars_used + msg_size > character_limit

\* a fit_to_size whose loop skips a message that does not fit and goes on
\* to the older ones (continue where the code has break)
RECURSIVE FitScan_Continue(_, _, _, _, _)
FitScan_Continue(log, i, chars_used, selected_messages, character_limit) ==
    IF i = 0 THEN selected_messages
    ELSE LET msg_size == Len(log[i].content)
         IN  IF ExceedsLimit(chars_used, msg_size, character_limit)
             THEN FitScan_Continue(log, i - 1, chars_used, selected_messages,
                                   character_limit)
             ELSE FitScan_Continue(log, i - 1, chars_used + msg_size,
                                   <<log[i]>> \o selected_messages, character_limit)

\* the loop of fit_to_size: i is the position of the next message of
\* reversed(chat_log), 0 when the loop is exhausted
RECURSIVE FitScan(_, _, _, _, _)
FitScan(log, i, chars_used, selected_messages, character_limit) ==
    IF i = 0 THEN selected_messages
    ELSE LET msg_size == Len(log[i].content)
         IN  IF ExceedsLimit(chars_used, msg_size, character_limit)
             THEN selected_messages
             ELSE FitScan(log, i - 1, chars_used + msg_size,
                          <<log[i]>> \o selected_messages, character_limit)

fit_to_size(log, character_limit) ==
    FitScan(log, Len(log), 0, <<>>, character_limit)

\* an except clause that lets the exception of the service call through
SummaryErrorCaught_Never(svc) == FALSE

\* except Exception, line 92: every exception of the service call is caught
SummaryErrorCaught(svc) == TRUE

\* create_summary: the text returned, whether and how often the service was
\* called, the messages whose text was sent to it, and whether an exception
\* leaves the method
create_summary(messages_to_summarize, svc) ==
    IF messages_to_summarize = <<>>
    THEN [text |-> NothingToSummarize, requested |-> FALSE, calls |-> 0,
          sent |-> <<>>, raised |-> FALSE]
    ELSE IF svc.kind = "ok"
    THEN [text |-> svc.text, requested |-> TRUE, calls |-> 1,
          sent |-> messages_to_summarize, raised |-> FALSE]
    ELSE IF SummaryErrorCaught(svc)
    THEN [text |-> FailurePrefix \o svc.text, requested |-> TRUE, calls |-> 1,
          sent |-> messages_to_summarize, raised |-> FALSE]
    ELSE [text |-> <<>>, requested |-> TRUE, calls |-> 1,
          sent |-> messages_to_summarize, raised |-> TRUE]

\* a guard with the comparison turned round: returns early when the
\* count is above the threshold
ThresholdReached_Inverted(count, after_n_messages) == ~(count > after_n_messages)

\* a guard that lets the counter pass the threshold before it compresses
ThresholdReached_Strict(count, after_n_messages) == count > after_n_messages

\* a guard that compares the length of the log, not the counter
ThresholdReached_ByLogLength(count, after_n_messages) ==
    ~(Len(chat_log) < after_n_messages)

\* the guard of check_and_compress: False is the early return
ThresholdReached(count, after_n_messages) == ~(count < after_n_messages)

\* a compression that files the summary under the assistant's role
SummaryEntry_AsAssistant(summary) ==
    [role |-> "assistant", content |-> ContextPrefix \o summary]

\* the log check_and_compress starts afresh with
SummaryEntry(summary) ==
    [role |-> "system", content |-> ContextPrefix \o summary]

\* the characters str.split() takes for separators
Whitespace == {" ", "\t", "\n"}

\* content.split(): the maximal runs of characters that are not whitespace
RECURSIVE SplitScan(_, _, _)
SplitScan(txt, word, words) ==
    IF txt = <<>>
    THEN (IF word = <<>> THEN words ELSE Append(words, word))
    ELSE IF Head(txt) \in Whitespace
    THEN SplitScan(Tail(txt), <<>>,
                   IF word = <<>> THEN words ELSE Append(words, word))
    ELSE SplitScan(Tail(txt), Append(word, Head(txt)), words)

PySplit(txt) == SplitScan(txt, <<>>, <<>>)

\* sum(len(m["content"]) for m in self.chat_log)
RECURSIVE char_count(_)
char_count(log) ==
    IF log = <<>> THEN 0 ELSE Len(Head(log).content) + char_count(Tail(log))

\* sum(len(m["content"].split()) for m in self.chat_log)
RECURSIVE word_count(_)
word_count(log) ==
    IF log = <<>> THEN 0
    ELSE Len(PySplit(Head(log).content)) + word_count(Tail(log))

\* metrics that count the messages with the counter, not the log
get_chat_metrics_ByCounter(log) ==
    [total_messages |-> message_count,
     total_characters |-> char_count(log),
     total_words |-> word_count(log),
     turns |-> message_count \div 2]

get_chat_metrics(log) ==
    [total_messages |-> Len(log),
     total_characters |-> char_count(log),
     total_words |-> word_count(log),
     turns |-> Len(log) \div 2]

\* ---------------------------------------------------------------- handler
\* call.repeat: the call is a check_and_compress that directly follows a
\* check_and_compress with the same argument; call.args: the speaker and
\* text given to record_message; call.raised: an exception left the call
NoCall == [op |-> "init", arg |-> 0, args |-> <<>>, svc |-> NoOutcome,
           requested |-> FALSE, calls |-> 0, sent |-> <<>>, ret |-> <<>>,
           repeat |-> FALSE, raised |-> FALSE]

\* history.appended: record_message calls since the last compression (since
\* creation if none); history.compressed: a compression has occurred;
\* history.lost: a compression has removed messages from the log without a
\* summary of them, or of a summary that carried them, taking their place
NoHistory == [appended |-> 0, compressed |-> FALSE, lost |-> FALSE]
NoCaller == [threshold |-> 0, pending |-> FALSE]

HandlerInit ==
    /\ chat_log = <<>>
    /\ message_count = 0
    /\ last_summary = <<>>
    /\ call = NoCall
    /\ history = NoHistory

\* a record_message that puts the new entry in front of the log
AppendEntry_AtFront(log, new_entry) == <<new_entry>> \o log

\* self.chat_log.append(new_entry)
AppendEntry(log, new_entry) == Append(log, new_entry)

\* the body of record_message
RecordMessage(speaker, text) ==
    /\ chat_log' = AppendEntry(chat_log, [role |-> speaker, content |-> text])
    /\ message_count' = message_count + 1
    /\ call' = [NoCall EXCEPT !.op = "record_message", !.args = <<speaker, text>>]
    /\ history' = [history EXCEPT !.appended = @ + 1]
    /\ UNCHANGED << last_summary, minerVars >>

record_message(speaker, text) ==
    /\ Len(chat_log) < MaxLog
    /\ RecordMessage(speaker, text)
    /\ UNCHANGED caller

KeepRecentTurns(k) ==
    /\ call' = [NoCall EXCEPT !.op = "keep_recent_turns", !.arg = k,
                              !.ret = keep_recent_turns(chat_log, k)]
    /\ UNCHANGED << chat_log, message_count, last_summary, history, minerVars,
                     caller >>

FitToSize(m) ==
    /\ call' = [NoCall EXCEPT !.op = "fit_to_size", !.arg = m,
                              !.ret = fit_to_size(chat_log, m)]
    /\ UNCHANGED << chat_log, message_count, last_summary, history, minerVars,
                     caller >>

GetChatMetrics ==
    /\ call' = [NoCall EXCEPT !.op = "get_chat_metrics",
                              !.ret = get_chat_metrics(chat_log)]
    /\ UNCHANGED << chat_log, message_count, last_summary, history, minerVars,
                     caller >>

\* an ad-hoc summary that also files its text as the last summary
CreateSummary_StoresSummary(svc) ==
    LET r == create_summary(chat_log, svc)
    IN  /\ call' = [NoCall EXCEPT !.op = "create_summary",
                                  !.svc = IF r.requested THEN svc ELSE NoOutcome,
                                  !.requested = r.requested, !.calls = r.calls,
                                  !.sent = r.sent, !.ret = r.text,
                                  !.raised = r.raised]
        /\ last_summary' = r.text
        /\ UNCHANGED << chat_log, message_count, history, minerVars, caller >>

\* the ad-hoc summary of the whole log (as the demo at line 275 asks for)
CreateSummary(svc) ==
    LET r == create_summary(chat_log, svc)
    IN  /\ call' = [NoCall EXCEPT !.op = "create_summary",
                                  !.svc = IF r.requested THEN svc ELSE NoOutcome,
                                  !.requested = r.requested, !.calls = r.calls,
                                  !.sent = r.sent, !.ret = r.text,
                                  !.raised = r.raised]
        /\ UNCHANGED << chat_log, message_count, last_summary, history, minerVars,
                         caller >>

\* a compression that leaves the counter as it is
CounterAfterCompression_Kept == message_count

\* self.message_count = 0, line 112
CounterAfterCompression == 0

\* the body of check_and_compress
CheckAndCompress(after_n_messages, svc) ==
    LET again == call.op = "check_and_compress" /\ call.arg = after_n_messages
        r == create_summary(chat_log, svc)
        made == [NoCall EXCEPT !.op = "check_and_compress",
                               !.arg = after_n_messages,
                               !.svc = IF r.requested THEN svc ELSE NoOutcome,
                               !.requested = r.requested, !.calls = r.calls,
                               !.sent = r.sent, !.repeat = again,
                               !.raised = r.raised]
    IN
    IF ~ThresholdReached(message_count, after_n_messages)
    THEN /\ call' = [NoCall EXCEPT !.op = "check_and_compress",
                                   !.arg = after_n_messages, !.repeat = again]
         /\ UNCHANGED << chat_log, message_count, last_summary, history, minerVars >>
    ELSE IF r.raised
    THEN /\ call' = made
         /\ UNCHANGED << chat_log, message_count, last_summary, history, minerVars >>
    ELSE /\ last_summary' = r.text
         /\ chat_log' = << SummaryEntry(r.text) >>
         /\ message_count' = CounterAfterCompression
         /\ call' = made
         /\ history' = [appended |-> 0, compressed |-> TRUE,
                        lost |-> history.lost
                                 \/ (chat_log # <<>> /\ svc.kind # "ok")]
         /\ UNCHANGED minerVars

check_and_compress(after_n_messages, svc) ==
    /\ CheckAndCompress(after_n_messages, svc)
    /\ UNCHANGED caller

Next ==
    \/ \E speaker \in Speakers, text \in Texts : record_message(speaker, text)
    \/ \E k \in 0..MaxTurns : KeepRecentTurns(k)
    \/ \E m \in 0..MaxBudget : FitToSize(m)
    \/ GetChatMetrics
    \/ \E svc \in SummaryOutcomes : CreateSummary(svc)
    \/ \E t \in Thresholds, svc \in SummaryOutcomes : check_and_compress(t, svc)

\* ------------------------------------------------------------------ miner
\* JSON values as json.loads yields them: None, str, int, float (a float is
\* held as ten times its value); Absent marks a key the object lacks
JNull == [t |-> "null", s |-> <<>>, n |-> 0]
JStr(txt) == [t |-> "str", s |-> txt, n |-> 0]
JInt(k) == [t |-> "int", s |-> <<>>, n |-> k]
JFloat(tenths) == [t |-> "float", s |-> <<>>, n |-> tenths]
Absent == [t |-> "absent", s |-> <<>>, n |-> 0]

Keys == {"name", "email", "phone", "location", "age"}

\* the dict with the keys whose value is not Absent
Dict(name, email, phone, location, age) ==
    LET all == [k \in Keys |->
                  CASE k = "name" -> name [] k = "email" -> email
                    [] k = "phone" -> phone [] k = "location" -> location
                    [] OTHER -> age]
    IN  [k \in {x \in Keys : all[x] # Absent} |-> all[k]]

EmptyProfile == [k \in {} |-> JNull]

\* the values a response (or a caller of check_quality) gives each key
NameValues == {Absent, JStr(<<"J">>)}
LocationValues == {JStr(<<"N","Y">>)}
EmailValues ==
    {Absent, JStr(<<>>), JStr(<<"a","@","b",".","c">>),
     JStr(<<"b","a","d">>), JStr(<<"a","@","b">>)}
PhoneValues ==
    {Absent, JStr(<<"1","2","3">>),
     JStr(<<"5","5","5","-","1","2","3","4">>),
     JStr(<<"1","2","3","4","5","6","7","8","9","0","1","2","3","4","5","6">>)}
AgeValues ==
    {Absent, JNull,
     JStr(<<>>), JStr(<<"2","8">>), JStr(<<"a","b","c">>),
     JStr(<<" ","2","8"," ">>), JStr(<<"-","5">>),
     JInt(28), JInt(200), JInt(0 - 1), JInt(0),
     JFloat(0), JFloat(285)}

Documents ==
    { Dict(name, email, phone, location, age) :
        name \in NameValues, email \in EmailValues, phone \in PhoneValues,
        location \in LocationValues, age \in AgeValues }

\* the dictionaries callers hand to check_quality themselves: the three
\* keys its rules read
CallerProfiles ==
    { Dict(Absent, email, phone, Absent, age) :
        email \in EmailValues, phone \in PhoneValues, age \in AgeValues }

\* what the completion service does with an extraction request: the call
\* raises (transport failure, error status), the response has no choice or
\* no content, the content is not JSON, or the content is a JSON object
FailureKinds == {"transport", "status", "no_choices", "none_content", "garbage"}
ExtractionOutcomes ==
    [kind : FailureKinds, doc : {EmptyProfile}] \cup [kind : {"json"}, doc : Documents]
NoResponse == [kind |-> "none", doc |-> EmptyProfile]

\* the exception lines 155-181 raise on an outcome ("" for none)
ExceptionOf(outcome) ==
    CASE outcome.kind = "transport" -> "APIConnectionError"
      [] outcome.kind = "status" -> "APIStatusError"
      [] outcome.kind = "no_choices" -> "IndexError"
      [] outcome.kind = "none_content" -> "TypeError"
      [] outcome.kind = "garbage" -> "JSONDecodeError"
      [] OTHER -> ""

\* an except clause that names the JSON error only
Caught_JsonOnly(exc) == exc = "JSONDecodeError"

\* except Exception, line 195
Caught(exc) == TRUE

DigitChars == << "0","1","2","3","4","5","6","7","8","9" >>
IsDigit(c) == \E i \in 1..Len(DigitChars) : DigitChars[i] = c
DigitValue(c) == (CHOOSE i \in 1..Len(DigitChars) : DigitChars[i] = c) - 1

RECURSIVE StripLeft(_)
StripLeft(txt) ==
    IF txt # <<>> /\ Head(txt) = " " THEN StripLeft(Tail(txt)) ELSE txt
RECURSIVE StripRight(_)
StripRight(txt) ==
    IF txt # <<>> /\ txt[Len(txt)] = " "
    THEN StripRight(SubSeq(txt, 1, Len(txt) - 1)) ELSE txt

RECURSIVE DigitsValue(_, _)
DigitsValue(txt, acc) ==
    IF txt = <<>> THEN acc
    ELSE IF Head(txt) = "_" THEN DigitsValue(Tail(txt), acc)
    ELSE DigitsValue(Tail(txt), acc * 10 + DigitValue(Head(txt)))

\* int(text): blanks stripped, an optional sign, decimal digits with single
\* underscores between them; ok = FALSE is the ValueError
PyInt(txt) ==
    LET stripped == StripRight(StripLeft(txt))
        signed == stripped # <<>> /\ Head(stripped) \in {"+", "-"}
        body == IF signed THEN Tail(stripped) ELSE stripped
        wellFormed ==
            /\ body # <<>>
            /\ \A i \in 1..Len(body) : IsDigit(body[i]) \/ body[i] = "_"
            /\ IsDigit(body[1]) /\ IsDigit(body[Len(body)])
            /\ \A i \in 1..(Len(body) - 1) : ~(body[i] = "_" /\ body[i + 1] = "_")
    IN  IF ~wellFormed THEN [ok |-> FALSE, value |-> 0]
        ELSE [ok |-> TRUE,
              value |-> IF signed /\ Head(stripped) = "-"
                        THEN 0 - DigitsValue(body, 0) ELSE DigitsValue(body, 0)]

\* lines 183-191
NormalizeAge(found_info) ==
    IF "age" \in DOMAIN found_info
           /\ (found_info["age"] = JStr(<<>>) \/ found_info["age"] = JNull)
    THEN [found_info EXCEPT !["age"] = JNull]
    ELSE IF "age" \in DOMAIN found_info /\ found_info["age"].t = "str"
    THEN LET r == PyInt(found_info["age"].s)
         IN  [found_info EXCEPT !["age"] = IF r.ok THEN JInt(r.value) ELSE JNull]
    ELSE found_info

\* mine_conversation: what it returns, or that the exception leaves it
mine_conversation(outcome) ==
    LET exc == ExceptionOf(outcome)
    IN  IF exc # ""
        THEN IF Caught(exc)
             THEN [raised |-> FALSE, value |-> EmptyProfile]
             ELSE [raised |-> TRUE, value |-> EmptyProfile]
        ELSE [raised |-> FALSE, value |-> NormalizeAge(outcome.doc)]

\* Python's truth value of a JSON value
Truthy(v) ==
    CASE v.t = "null" -> FALSE
      [] v.t = "str" -> v.s # <<>>
      [] OTHER -> v.n # 0

Contains(txt, c) == \E i \in 1..Len(txt) : txt[i] = c

\* re.sub(r'[^\d]', '', text)
digits_only(txt) == SelectSeq(txt, IsDigit)

MaxAge == 150
MinPhoneDigits == 7
MaxPhoneDigits == 15

EmailWarning(extracted_info) ==
    IF "email" \in DOMAIN extracted_info /\ Truthy(extracted_info["email"])
    THEN IF ~Contains(extracted_info["email"].s, "@")
            \/ ~Contains(extracted_info["email"].s, ".")
         THEN << "Email looks suspicious" >> ELSE <<>>
    ELSE <<>>

AgeWarning(extracted_info) ==
    IF "age" \in DOMAIN extracted_info /\ Truthy(extracted_info["age"])
    THEN LET age_val == extracted_info["age"]
         IN  IF age_val.t # "int" \/ age_val.n < 0 \/ age_val.n > MaxAge
             THEN << "Age seems off" >> ELSE <<>>
    ELSE <<>>

PhoneWarning(extracted_info) ==
    IF "phone" \in DOMAIN extracted_info /\ Truthy(extracted_info["phone"])
    THEN LET n == Len(digits_only(extracted_info["phone"].s))
         IN  IF n < MinPhoneDigits \/ n > MaxPhoneDigits
             THEN << "Phone number length unusual" >> ELSE <<>>
    ELSE <<>>

\* check_quality; extracted_fields is held as the set of its keys
check_quality(extracted_info) ==
    [is_valid |-> TRUE,
     errors |-> <<>>,
     warnings |-> EmailWarning(extracted_info) \o AgeWarning(extracted_info)
                    \o PhoneWarning(extracted_info),
     extracted_fields |->
        {k \in DOMAIN extracted_info :
            extracted_info[k] # JNull /\ extracted_info[k] # JStr(<<>>)}]

NoReport == [is_valid |-> TRUE, errors |-> <<>>, warnings |-> <<>>,
             extracted_fields |-> {}]
NoMinerCall == [op |-> "init", svc |-> NoResponse, raised |-> FALSE]

MinerInit ==
    /\ profile = EmptyProfile
    /\ report = NoReport
    /\ mcall = NoMinerCall

\* found_data = miner.mine_conversation(...), line 354
MineConversation(outcome) ==
    LET r == mine_conversation(outcome)
    IN  /\ profile' = IF r.raised THEN profile ELSE r.value
        /\ report' = NoReport
        /\ mcall' = [op |-> "mine_conversation", svc |-> outcome, raised |-> r.raised]
        /\ UNCHANGED << handlerVars, caller >>

\* quality_report = miner.check_quality(found_data), line 357
CheckQualityOfMined ==
    /\ mcall.op = "mine_conversation" /\ ~mcall.raised
    /\ report' = check_quality(profile)
    /\ mcall' = [mcall EXCEPT !.op = "check_quality_mined"]
    /\ UNCHANGED << profile, handlerVars, caller >>

\* check_quality called on a dictionary of the caller's own
CheckQualityDirect(extracted_info) ==
    /\ profile' = extracted_info
    /\ report' = check_quality(extracted_info)
    /\ mcall' = [NoMinerCall EXCEPT !.op = "check_quality"]
    /\ UNCHANGED << handlerVars, caller >>

MinerNext ==
    \/ \E outcome \in ExtractionOutcomes : MineConversation(outcome)
    \/ CheckQualityOfMined
    \/ \E extracted_info \in CallerProfiles : CheckQualityDirect(extracted_info)

Init == HandlerInit /\ MinerInit /\ caller = NoCaller

Spec == Init /\ [][Next]_vars

MinerSpec == Init /\ [][MinerNext]_vars

\* ------------------------------------------------- check after every append
\* a caller that fixes one threshold >= 1 and calls check_and_compress with
\* it directly after every record_message, and at no other time
DisciplineInit ==
    /\ HandlerInit /\ MinerInit
    /\ caller \in [threshold : 1..MaxThreshold, pending : {FALSE}]

DisciplinedRecord(speaker, text) ==
    /\ ~caller.pending
    /\ RecordMessage(speaker, text)
    /\ caller' = [caller EXCEPT !.pending = TRUE]

DisciplinedCheck(svc) ==
    /\ caller.pending
    /\ CheckAndCompress(caller.threshold, svc)
    /\ caller' = [caller EXCEPT !.pending = FALSE]

DisciplineNext ==
    \/ \E speaker \in Speakers, text \in Texts : DisciplinedRecord(speaker, text)
    \/ \E svc \in SummaryOutcomes : DisciplinedCheck(svc)

DisciplineSpec == DisciplineInit /\ [][DisciplineNext]_vars

\* ============================================================== claims
\* helpers of the statements below (not part of the program)
Min(a, b) == IF a < b THEN a ELSE b
LastN(s, n) == SubSeq(s, Len(s) - n + 1, Len(s))
RECURSIVE TotalChars(_)
TotalChars(msgs) ==
    IF msgs = <<>> THEN 0 ELSE Len(Head(msgs).content) + TotalChars(Tail(msgs))
IsCompress(c) == c.op = "check_and_compress"

\* C1 (as claimed): when the summarization request made inside
\* check_and_compress fails, the log and the counter are left as they were
\* and no message carrying the failure text enters the log.
C1_FailedSummaryLeavesLogUntouched ==
    [][ (IsCompress(call') /\ call'.requested /\ call'.svc.kind = "error")
        => /\ chat_log' = chat_log
           /\ message_count' = message_count ]_vars

\* C2: a check_and_compress(T) with T >= 1 called with the counter at or
\* above T calls the service, and when the service returns the text S the
\* log is the single entry (system, "Context from earlier: " + S), the
\* counter is 0 and last_summary is S.
C2_CompressionPostState ==
    [][ (IsCompress(call') /\ call'.arg >= 1 /\ message_count >= call'.arg)
        => /\ call'.requested
           /\ call'.svc.kind = "ok" =>
                /\ chat_log' = << [role |-> "system",
                                   content |-> ContextPrefix \o call'.svc.text] >>
                /\ message_count' = 0
                /\ last_summary' = call'.svc.text ]_vars

\* C2 witness: a fresh log took exactly T messages and check_and_compress(T)
\* compressed it with the service's text
C2_Witness ==
    /\ IsCompress(call) /\ call.arg >= 2 /\ call.svc.kind = "ok"
    /\ Len(call.sent) = call.arg
    /\ \A i \in 1..Len(call.sent) : call.sent[i].role # "system"
    /\ Len(chat_log) = 1 /\ last_summary = call.svc.text

\* C3 (as claimed): for every integer threshold, a check_and_compress that
\* directly follows one with the same threshold changes nothing and makes
\* no summarization request.
C3_SecondCallIsNoOp_AnyThreshold ==
    [][ (IsCompress(call) /\ IsCompress(call') /\ call'.arg = call.arg)
        => /\ chat_log' = chat_log
           /\ message_count' = message_count
           /\ last_summary' = last_summary
           /\ ~call'.requested ]_vars

\* C3 (amended): the same, for every threshold >= 1.
C3_SecondCallIsNoOp_PositiveThreshold ==
    [][ (IsCompress(call) /\ IsCompress(call') /\ call'.arg = call.arg
         /\ call'.arg >= 1)
        => /\ chat_log' = chat_log
           /\ message_count' = message_count
           /\ last_summary' = last_summary
           /\ ~call'.requested ]_vars

\* C3 witness: the second of two check_and_compress(t), t >= 1, has
\* returned, the first having compressed the log
C3_Witness ==
    /\ IsCompress(call) /\ call.repeat /\ call.arg >= 1 /\ ~call.requested
    /\ message_count = 0
    /\ chat_log = << SummaryEntry(last_summary) >>

\* C4: a check_and_compress(t) called with the counter below t leaves the
\* log, the counter and last_summary as they were and makes no request,
\* whatever the length of the log.
C4_BelowThresholdNoOp ==
    [][ (IsCompress(call') /\ message_count < call'.arg)
        => /\ chat_log' = chat_log
           /\ message_count' = message_count
           /\ last_summary' = last_summary
           /\ ~call'.requested ]_vars

\* C4 witness: after an earlier compression the log is as long as the
\* threshold, the counter is one short of it, and the call did nothing
C4_Witness ==
    /\ IsCompress(call) /\ ~call.requested
    /\ message_count < call.arg
    /\ Len(chat_log) = message_count + 1
    /\ Len(chat_log) >= call.arg
    /\ chat_log[1].role = "system"

\* C5 (as claimed): keep_recent_turns(k), k >= 0, returns the last
\* min(|log|, 2k) messages of the log.
C5_RecentTurnsAreLastMin ==
    (call.op = "keep_recent_turns" /\ call.arg >= 0)
    => call.ret = LastN(chat_log, Min(Len(chat_log), 2 * call.arg))

\* C6: the messages fit_to_size(m) returns, m >= 0, have a total content
\* length of at most m, and they are the whole log when m is at least the
\* total content length of the log.
C6_FitWithinBudget ==
    (call.op = "fit_to_size" /\ call.arg >= 0)
    => /\ TotalChars(call.ret) <= call.arg
       /\ call.arg >= TotalChars(chat_log) => call.ret = chat_log

\* C6 witness: a log of several messages whose contents fill the budget
\* exactly was returned whole
C6_Witness ==
    /\ call.op = "fit_to_size" /\ Len(chat_log) >= 2
    /\ call.arg = TotalChars(chat_log) /\ call.arg > 0
    /\ call.ret = chat_log

\* C7 (as claimed): fit_to_size(0) returns the empty sequence.
C7_ZeroBudgetIsEmpty ==
    (call.op = "fit_to_size" /\ call.arg = 0) => call.ret = <<>>

\* the longest suffix of the log all of whose contents are empty
EmptyContentSuffix(log) ==
    LET n == CHOOSE n \in 0..Len(log) :
                /\ \A i \in (Len(log) - n + 1)..Len(log) : log[i].content = <<>>
                /\ \A j \in (n + 1)..Len(log) :
                      \E i \in (Len(log) - j + 1)..Len(log) : log[i].content # <<>>
    IN  LastN(log, n)

\* C7 (amended): fit_to_size(0) returns the longest suffix of the log made
\* of messages with empty content; it is empty exactly when the log is
\* empty or its newest message has a non-empty content.
C7_ZeroBudgetKeepsEmptyMessages ==
    (call.op = "fit_to_size" /\ call.arg = 0)
    => /\ call.ret = EmptyContentSuffix(chat_log)
       /\ call.ret = <<>> <=>
            (chat_log = <<>> \/ chat_log[Len(chat_log)].content # <<>>)

\* C7 witness: fit_to_size(0) returned the empty newest message and left
\* out an older empty message that lies behind a non-empty one
C7_Witness ==
    /\ call.op = "fit_to_size" /\ call.arg = 0
    /\ Len(chat_log) = 3 /\ Len(call.ret) = 1
    /\ chat_log[1].content = <<>> /\ chat_log[2].content # <<>>

\* ------------------------------------------------------ claims on the miner
IsQualityCall(c) == c.op \in {"check_quality", "check_quality_mined"}
IsMined(c) == c.op \in {"mine_conversation", "check_quality_mined"}
\* a field is present: the key is there and its value is neither null nor
\* the empty text
Present(p, k) == k \in DOMAIN p /\ p[k] # JNull /\ p[k] # JStr(<<>>)
DigitCount(txt) == Cardinality({i \in 1..Len(txt) : IsDigit(txt[i])})
AgeOf(p) == IF "age" \in DOMAIN p THEN p["age"] ELSE JNull

ClaimedEmailWarning(p) ==
    /\ Present(p, "email")
    /\ ~Contains(p["email"].s, "@") \/ ~Contains(p["email"].s, ".")
ClaimedAgeWarning(p) ==
    /\ Present(p, "age")
    /\ p["age"].t # "int" \/ p["age"].n < 0 \/ p["age"].n > 150
ClaimedPhoneWarning(p) ==
    /\ Present(p, "phone")
    /\ DigitCount(p["phone"].s) < 7 \/ DigitCount(p["phone"].s) > 15

\* C8 (as claimed): every check_quality report has is_valid = true, and its
\* warnings are, in the order email, age, phone, one email warning iff the
\* email is present and lacks "@" or ".", one age warning iff the age is
\* present and is not an integer or lies outside 0..150, one phone warning
\* iff the phone is present and has fewer than 7 or more than 15 digits.
C8_QualityReportRules ==
    IsQualityCall(mcall)
    => /\ report.is_valid
       /\ report.warnings =
            (IF ClaimedEmailWarning(profile) THEN <<"Email looks suspicious">> ELSE <<>>)
            \o (IF ClaimedAgeWarning(profile) THEN <<"Age seems off">> ELSE <<>>)
            \o (IF ClaimedPhoneWarning(profile)
                THEN <<"Phone number length unusual">> ELSE <<>>)

\* C9: when the service call fails or its response cannot be parsed,
\* mine_conversation raises nothing and returns the empty dictionary, and
\* check_quality of that result lists no field and no warning.
C9_FailedExtractionIsEmptyProfile ==
    (IsMined(mcall) /\ mcall.svc.kind \in FailureKinds)
    => /\ ~mcall.raised
       /\ profile = EmptyProfile
       /\ mcall.op = "check_quality_mined"
            => report.extracted_fields = {} /\ report.warnings = <<>>

\* C9 witness: the extraction met a transport failure and its result has
\* been through check_quality
C9_Witness ==
    /\ mcall.op = "check_quality_mined" /\ mcall.svc.kind = "transport"
    /\ profile = EmptyProfile /\ report.warnings = <<>>

\* C10 (as claimed): for every parsed response the age mine_conversation
\* returns is an integer or null (null for an absent, null or empty age,
\* the integer for a text int() converts, null for any other text), the
\* other four fields are returned as they came, and a response with five
\* non-empty fields and age "28" gives age 28 and five present fields.
C10_AgeIsIntegerOrNull ==
    (IsMined(mcall) /\ mcall.svc.kind = "json")
    => LET doc == mcall.svc.doc
           was == AgeOf(doc)
           now == AgeOf(profile)
       IN  /\ now.t \in {"int", "null"}
           /\ was \in {JNull, JStr(<<>>)} => now = JNull
           /\ was = JStr(<<"2","8">>) => now = JInt(28)
           /\ (was.t = "str" /\ was.s # <<>>)
                => now = IF PyInt(was.s).ok THEN JInt(PyInt(was.s).value) ELSE JNull
           /\ \A k \in Keys \ {"age"} :
                /\ k \in DOMAIN profile <=> k \in DOMAIN doc
                /\ k \in DOMAIN doc => profile[k] = doc[k]
           /\ (mcall.op = "check_quality_mined" /\ was = JStr(<<"2","8">>)
               /\ \A k \in Keys \ {"age"} : Present(doc, k))
                => report.extracted_fields = Keys

\* ------------------------------------------------ claims C11 to C20
EndsWith(txt, tail) ==
    /\ Len(txt) >= Len(tail)
    /\ SubSeq(txt, Len(txt) - Len(tail) + 1, Len(txt)) = tail

WordStarts(txt) ==
    Cardinality({i \in 1..Len(txt) :
                    /\ txt[i] \notin {" ", "\t", "\n"}
                    /\ i = 1 \/ txt[i - 1] \in {" ", "\t", "\n"}})
RECURSIVE TotalWords(_)
TotalWords(msgs) ==
    IF msgs = <<>> THEN 0
    ELSE WordStarts(Head(msgs).content) + TotalWords(Tail(msgs))

\* C12: get_chat_metrics returns the length of the log as total_messages
\* (the summary entry counts as one message), the sum of the content
\* lengths as total_characters, the sum of the per-message word counts as
\* total_words and total_messages div 2 as turns; all four are 0 on an
\* empty log.
C12_MetricsOfCurrentLog ==
    call.op = "get_chat_metrics"
    => /\ call.ret.total_messages = Len(chat_log)
       /\ call.ret.total_characters = TotalChars(chat_log)
       /\ call.ret.total_words = TotalWords(chat_log)
       /\ call.ret.turns = call.ret.total_messages \div 2
       /\ chat_log = <<>>
            => call.ret = [total_messages |-> 0, total_characters |-> 0,
                           total_words |-> 0, turns |-> 0]

\* C12 witness: the metrics of a log of three messages, the first of them
\* the summary entry of an earlier compression
C12_Witness ==
    /\ call.op = "get_chat_metrics" /\ Len(chat_log) = 3
    /\ chat_log[1].role = "system" /\ message_count = 2
    /\ call.ret.total_messages = 3 /\ call.ret.turns = 1
    /\ call.ret.total_words > 4

IsSuffixOf(w, log) == Len(w) <= Len(log) /\ w = LastN(log, Len(w))
\* the number of messages of the log that lie before the window
WindowStart(log, k) == Len(log) - Len(keep_recent_turns(log, k))

\* C13: for each k >= 0 the window keep_recent_turns(k) is a suffix of the
\* log; a record_message never moves the start of the window towards the
\* front of the log; and for k >= 1 the window of a non-empty log ends
\* with the newest message, after a record_message the one just given.
C13_WindowMonotonic ==
    [][ /\ call'.op = "keep_recent_turns" => IsSuffixOf(call'.ret, chat_log')
        /\ \A k \in 0..MaxTurns :
             LET window == keep_recent_turns(chat_log', k)
             IN  /\ IsSuffixOf(window, chat_log')
                 /\ (k >= 1 /\ chat_log' # <<>>)
                      => /\ window # <<>>
                         /\ window[Len(window)] = chat_log'[Len(chat_log')]
                 /\ call'.op = "record_message"
                      => /\ WindowStart(chat_log', k) >= WindowStart(chat_log, k)
                         /\ k >= 1 => window[Len(window)] =
                                        [role |-> call'.args[1],
                                         content |-> call'.args[2]] ]_vars

\* C13 witness: a third message was recorded and the window of one turn
\* starts behind the first message
C13_Witness ==
    /\ call.op = "record_message" /\ Len(chat_log) = 3
    /\ WindowStart(chat_log, 1) = 1
    /\ chat_log[1] # chat_log[3]

\* the counter is the number of record_message calls since the last
\* compression, and the log is that long, plus the summary entry once a
\* compression has occurred
CounterMatchesLog ==
    /\ message_count = history.appended
    /\ Len(chat_log) = message_count + (IF history.compressed THEN 1 ELSE 0)

\* C14: in every state the counter equals the number of record_message
\* calls since the most recent compression (since creation if there was
\* none) and the log length is the counter, plus one once a compression
\* has occurred; each record_message adds exactly 1 to both.
C14_CounterInvariant ==
    /\ CounterMatchesLog
    /\ [][ /\ CounterMatchesLog'
           /\ call'.op = "record_message"
                => /\ Len(chat_log') = Len(chat_log) + 1
                   /\ message_count' = message_count + 1 ]_vars

\* C14 witness: two messages were recorded after a compression
C14_Witness ==
    /\ call.op = "record_message" /\ history.compressed
    /\ message_count = 2 /\ Len(chat_log) = 3

IsPrefixOf(a, b) == Len(a) <= Len(b) /\ a = SubSeq(b, 1, Len(a))

\* C15: a step changes the log only by record_message, which appends the
\* one entry it was given and leaves the earlier entries as they were, or
\* by a compression, which leaves the single summary entry; every other
\* step leaves the log as it was, so outside compressions the earlier log
\* is a prefix of the later one.
C15_AppendOnlyLog ==
    [][ /\ call'.op = "record_message"
             => chat_log' = Append(chat_log, [role |-> call'.args[1],
                                              content |-> call'.args[2]])
        /\ IsCompress(call')
             => \/ chat_log' = chat_log
                \/ /\ Len(chat_log') = 1
                   /\ chat_log'[1].role = "system"
                   /\ IsPrefixOf(ContextPrefix, chat_log'[1].content)
        /\ call'.op \notin {"record_message", "check_and_compress"}
             => chat_log' = chat_log
        /\ (~IsCompress(call') \/ ~ThresholdReached(message_count, call'.arg))
             => IsPrefixOf(chat_log, chat_log') ]_vars

\* C15 witness: a message was recorded behind a summary entry and an
\* earlier message, which are still in their places
C15_Witness ==
    /\ call.op = "record_message" /\ Len(chat_log) = 3
    /\ chat_log[1].role = "system"
    /\ chat_log[2] # chat_log[3]
    /\ chat_log[3] = [role |-> call.args[1], content |-> call.args[2]]

\* C16: fit_to_size(m) returns the longest suffix of the log whose contents
\* total at most m characters, whole messages in log order: the message in
\* front of the result does not fit even if older ones would, and the
\* result is empty when the newest message alone is longer than m.
C16_FitIsLongestSuffix ==
    (call.op = "fit_to_size" /\ call.arg >= 0)
    => LET n == Len(call.ret)
       IN  /\ IsSuffixOf(call.ret, chat_log)
           /\ TotalChars(call.ret) <= call.arg
           /\ n < Len(chat_log)
                => TotalChars(LastN(chat_log, n + 1)) > call.arg
           /\ (chat_log # <<>>
               /\ Len(chat_log[Len(chat_log)].content) > call.arg)
                => call.ret = <<>>

\* C16 witness: the scan stopped at a message that did not fit although
\* the older message in front of it would have fitted
C16_Witness ==
    /\ call.op = "fit_to_size" /\ Len(chat_log) = 3 /\ Len(call.ret) = 1
    /\ call.ret[1].content # <<>>
    /\ Len(chat_log[1].content) > 0
    /\ Len(chat_log[1].content) + TotalChars(call.ret) <= call.arg

ReadOnlyCalls ==
    {"keep_recent_turns", "fit_to_size", "get_chat_metrics", "create_summary"}

\* C17: keep_recent_turns, fit_to_size, get_chat_metrics and an ad-hoc
\* create_summary (whether its request succeeds or fails) leave the log,
\* the counter and last_summary as they were; record_message leaves
\* last_summary as it was; so last_summary changes only in
\* check_and_compress and is empty until the first compression.
C17_FrameOfReadOnlyCalls ==
    /\ ~history.compressed => last_summary = <<>>
    /\ [][ /\ call'.op \in ReadOnlyCalls
                => /\ chat_log' = chat_log
                   /\ message_count' = message_count
                   /\ last_summary' = last_summary
           /\ call'.op = "record_message" => last_summary' = last_summary
           /\ last_summary' # last_summary => IsCompress(call')
           /\ ~history'.compressed => last_summary' = <<>> ]_vars

\* C17 witness: before any compression an ad-hoc summary of a non-empty
\* log failed, and last_summary is still empty
C17_Witness ==
    /\ call.op = "create_summary" /\ call.svc.kind = "error"
    /\ ~history.compressed /\ Len(chat_log) >= 1 /\ message_count >= 1
    /\ last_summary = <<>>

\* C18 (as claimed): when the summarization request of a
\* check_and_compress(t) has failed, the next check_and_compress(t) finds
\* the threshold reached again and makes a new request.
C18_FailedCompressionIsReattempted ==
    [][ (/\ IsCompress(call) /\ call.requested /\ call.svc.kind = "error"
         /\ IsCompress(call') /\ call'.arg = call.arg)
        => /\ ThresholdReached(message_count, call'.arg)
           /\ call'.requested ]_vars

\* C19 (as claimed): every compression sends the whole log to the
\* summarization request, and no message is ever removed from the log
\* without a summary of it, or of a summary that carried it, taking its
\* place.
C19_NoMessageLost ==
    [][ /\ (IsCompress(call') /\ chat_log # <<>>
            /\ ThresholdReached(message_count, call'.arg))
             => call'.requested /\ call'.sent = chat_log
        /\ ~history'.lost ]_vars

\* C20: when check_and_compress(T), with one fixed T >= 1, directly
\* follows every record_message, the log never holds more than T + 1
\* messages, it holds at most T after every check_and_compress, and
\* exactly 1 right after a compression.
C20_BoundedLogUnderDiscipline ==
    caller.threshold >= 1
    => /\ Len(chat_log) <= caller.threshold + 1
       /\ IsCompress(call)
            => /\ Len(chat_log) <= caller.threshold
               /\ call.requested => Len(chat_log) = 1 /\ message_count = 0

\* C20 witness: with a threshold of at least 2 the log has reached T + 1
\* messages, the check that will compress it still to come
C20_Witness ==
    /\ caller.threshold >= 2 /\ caller.pending
    /\ Len(chat_log) = caller.threshold + 1
    /\ message_count = caller.threshold

====
